---------------------------- MODULE Spec2Model ----------------------------
(***************************************************************************)
(* felisp: s-expression parser (src/src/ast.rs), values and environments   *)
(* (src/src/env.rs), evaluator and read-eval-print loop (src/src/main.rs). *)
(*                                                                         *)
(* A text (Rust String / &str) is a sequence of characters, a character a  *)
(* one-character string; "DEL" stands for U+007F, a character that is      *)
(* neither whitespace nor ASCII graphic.                                   *)
(*                                                                         *)
(* Numbers stay far from the limits of i64 and no line recurses without    *)
(* bound, so integer overflow and exhaustion of the native stack are not   *)
(* reached by the behaviours explored here.                                *)
(***************************************************************************)
EXTENDS Integers, Sequences, FiniteSets, TLC

VARIABLES
    source,     \* SpecParse: the String handed to Expr::parse
    parsed,     \* SpecParse: Result<Expr, String> of Expr::parse(source)
    shown,      \* SpecParse: outcome of parsed.to_string()
    reparsed,   \* SpecParse: Result of Expr::parse(shown)
    pc,         \* main: "read" at the prompt, "eval" inside eval, "exit"
                \* after the loop, "panicked" once the process has aborted
    history,    \* main: the lines returned by rl.readline so far, in order
                \* (what rl.add_history_entry has recorded)
    heap,       \* every Env created so far; an Rc<Env> is an index into it
    ctrl,       \* the evaluator's control: the call being made or its result
    stack,      \* the pending eval_* calls of the native call stack
    out,        \* the last line printed by main
    before      \* the global bindings when the last line was read

pvars == <<source, parsed, shown, reparsed>>

rvars == <<pc, history, heap, ctrl, stack, out, before>>

vars == <<source, parsed, shown, reparsed, pc, history, heap, ctrl, stack, out, before>>

NotYet == [done |-> FALSE]

(***************************************************************************)
(* Characters                                                              *)
(***************************************************************************)
Whitespace == {" ", "\t", "\n"}

DigitChars == <<"0", "1", "2", "3", "4", "5", "6", "7", "8", "9">>

Digits == {DigitChars[i] : i \in 1..10}

AsciiGraphic ==
    Digits \cup
    {"a", "b", "c", "d", "e", "f", "g", "h", "i", "j", "k", "l", "m",
     "n", "o", "p", "q", "r", "s", "t", "u", "v", "w", "x", "y", "z",
     "A", "B", "C", "D", "E", "F", "G", "H", "I", "J", "K", "L", "M",
     "N", "O", "P", "Q", "R", "S", "T", "U", "V", "W", "X", "Y", "Z",
     "!", "#", "$", "%", "&", "'", "(", ")", "*", "+", ",", "-", ".",
     "/", ":", ";", "<", "=", ">", "?", "@", "[", "]", "^", "_",
     "{", "|", "}", "~"}

is_whitespace(c) == c \in Whitespace

is_ascii_graphic(c) == c \in AsciiGraphic

(***************************************************************************)
(* ast.rs: enum Expr                                                       *)
(***************************************************************************)
Atom(s) == [a |-> s]

List(xs) == [l |-> xs]

IsAtom(e) == "a" \in DOMAIN e

IsList(e) == "l" \in DOMAIN e

Ok(e) == [ok |-> TRUE, expr |-> e]

Err(msg) == [ok |-> FALSE, err |-> msg]

(***************************************************************************)
(* ast.rs: impl Display for Expr.  The outcome is the text written, or a   *)
(* panic: for a list of length 0 the slice bound n - 1 underflows usize    *)
(* (overflow panic with overflow checks, else the slice index usize::MAX   *)
(* is out of range), so every build panics.                                *)
(***************************************************************************)
Shown(t) == [ok |-> TRUE, text |-> t]

Panic == [ok |-> FALSE, panic |-> TRUE]

IsPanic(r) == "panic" \in DOMAIN r

RECURSIVE fmt(_)
RECURSIVE fmt_prefix(_, _)

\* for expr in &exprs[..k] { write!(f, "{} ", expr)?; }
fmt_prefix(exprs, k) ==
    IF k = 0 THEN Shown(<<>>)
    ELSE LET head == fmt_prefix(exprs, k - 1)
             this == fmt(exprs[k])
         IN IF ~head.ok \/ ~this.ok THEN Panic
            ELSE Shown(head.text \o this.text \o <<" ">>)

fmt(e) ==
    IF IsAtom(e) THEN Shown(e.a)
    ELSE LET n == Len(e.l)
         IN IF n = 0 THEN Panic
            ELSE LET pre  == fmt_prefix(e.l, n - 1)
                     last == fmt(e.l[n])
                 IN IF ~pre.ok \/ ~last.ok THEN Panic
                    ELSE Shown(<<"(">> \o pre.text \o last.text \o <<")">>)

to_string(e) == fmt(e)

(***************************************************************************)
(* ast.rs: the parser.  Peekable<Chars> is the text and the index of the   *)
(* next character; peek is the character there, if any.                    *)
(***************************************************************************)
HasNext(s, i) == i <= Len(s)

RECURSIVE skip_whitespace(_, _)
\* while let Some(_) = chars.next_if(|&c| c.is_whitespace()) {}
skip_whitespace(s, i) ==
    IF HasNext(s, i) /\ is_whitespace(s[i]) THEN skip_whitespace(s, i + 1) ELSE i

RECURSIVE atom_end(_, _)
\* while let Some(c) = chars.next_if(|&c| c != RPAREN && c.is_ascii_graphic())
atom_end(s, i) ==
    IF HasNext(s, i) /\ s[i] # ")" /\ is_ascii_graphic(s[i])
    THEN atom_end(s, i + 1) ELSE i

POk(e, i) == [ok |-> TRUE, expr |-> e, pos |-> i]

parse_atom(s, i) ==
    LET j == atom_end(s, i)
    IN IF j = i THEN Err("empty atom")
       ELSE POk(Atom(SubSeq(s, i, j - 1)), j)

RECURSIVE parse_expression(_, _)
RECURSIVE parse_list_loop(_, _, _)

\* while chars.peek().is_some_and(|&c| c != ')') { result.push(parse_expression(chars)?) }
\* chars.next_if_eq(&')').ok_or("parse_list expected ')'")?
parse_list_loop(s, i, result) ==
    IF HasNext(s, i) /\ s[i] # ")"
    THEN LET r == parse_expression(s, i)
         IN IF ~r.ok THEN r ELSE parse_list_loop(s, r.pos, Append(result, r.expr))
    ELSE IF HasNext(s, i) /\ s[i] = ")"
         THEN POk(List(result), i + 1)
         ELSE Err("parse_list expected ')'")

parse_list(s, i) ==
    IF HasNext(s, i) /\ s[i] = "("
    THEN parse_list_loop(s, i + 1, <<>>)
    ELSE Err("parse_list expected '('")

parse_expression(s, i) ==
    LET j   == skip_whitespace(s, i)
        res == IF HasNext(s, j) /\ s[j] = "(" THEN parse_list(s, j)
               ELSE parse_atom(s, j)
    IN IF res.ok THEN POk(res.expr, skip_whitespace(s, res.pos)) ELSE res

Expr_parse(src) ==
    LET r == parse_expression(src, 1)
    IN IF ~r.ok THEN r
       ELSE IF HasNext(src, r.pos) THEN Err("Unexpected EOF")
       ELSE Ok(r.expr)

(***************************************************************************)
(* env.rs: enum Value.  A Callback is one of the four primitives or the    *)
(* closure built by eval_fn, which owns its captured environment, its      *)
(* binding forms and its body.                                             *)
(***************************************************************************)
Nil == [t |-> "Nil"]

True == [t |-> "True"]

False == [t |-> "False"]

Def == [t |-> "Def"]

Let == [t |-> "Let"]

Do == [t |-> "Do"]

If == [t |-> "If"]

Fn == [t |-> "Fn"]

Quote == [t |-> "Quote"]

Number(n) == [t |-> "Number", n |-> n]

Quoted(e) == [t |-> "Quoted", e |-> e]

Function(cb) == [t |-> "Function", f |-> cb]

Native(name) == [native |-> name]

Closure(env, bindings, body) == [env |-> env, bindings |-> bindings, body |-> body]

IsClosure(cb) == "env" \in DOMAIN cb

Markers == {Def, Let, Do, If, Fn, Quote}

\* write!(f, "{}", n) for an i64
RECURSIVE fmt_digits(_)
fmt_digits(n) ==
    LET d == DigitChars[(n % 10) + 1]
    IN IF n < 10 THEN <<d>> ELSE Append(fmt_digits(n \div 10), d)

fmt_i64(n) == IF n < 0 THEN <<"-">> \o fmt_digits(-n) ELSE fmt_digits(n)

\* impl Display for Value
fmt_value(v) ==
    CASE v.t = "Nil"      -> Shown(<<"n", "i", "l">>)
      [] v.t = "True"     -> Shown(<<"t", "r", "u", "e">>)
      [] v.t = "False"    -> Shown(<<"f", "a", "l", "s", "e">>)
      [] v.t = "Def"      -> Shown(<<"d", "e", "f", "!">>)
      [] v.t = "Let"      -> Shown(<<"l", "e", "t", "*">>)
      [] v.t = "If"       -> Shown(<<"i", "f">>)
      [] v.t = "Do"       -> Shown(<<"d", "o">>)
      [] v.t = "Quote"    -> Shown(<<"q", "u", "o", "t", "e">>)
      [] v.t = "Fn"       -> Shown(<<"f", "n", "*">>)
      [] v.t = "Number"   -> Shown(fmt_i64(v.n))
      [] v.t = "Quoted"   -> fmt(v.e)
      [] v.t = "Function" -> Shown(<<"<", "f", "u", "n", ">">>)

(***************************************************************************)
(* env.rs: struct Env { data, outer } and its methods.  outer = 0 is None. *)
(***************************************************************************)
EmptyMap == [k \in {} |-> Nil]

\* an environment created without its outer link
Env_new_unlinked(outer) == [data |-> EmptyMap, outer |-> 0]

Env_new(outer) == [data |-> EmptyMap, outer |-> outer]

Env_default ==
    [data |-> (<<"+">> :> Function(Native("add"))) @@
              (<<"-">> :> Function(Native("sub"))) @@
              (<<"*">> :> Function(Native("mul"))) @@
              (<<"<", "=">> :> Function(Native("leq"))),
     outer |-> 0]

\* str::parse::<i64>: an optional sign, then one or more ASCII digits
DigitVal(c) == CHOOSE n \in 0..9 : DigitChars[n + 1] = c

RECURSIVE digits_value(_)
digits_value(s) ==
    IF Len(s) = 0 THEN 0
    ELSE 10 * digits_value(SubSeq(s, 1, Len(s) - 1)) + DigitVal(s[Len(s)])

parse_i64(s) ==
    LET signed == Len(s) > 0 /\ s[1] \in {"+", "-"}
        digits == IF signed THEN Tail(s) ELSE s
    IN IF Len(digits) = 0 \/ \E i \in 1..Len(digits) : digits[i] \notin Digits
       THEN [ok |-> FALSE]
       ELSE [ok |-> TRUE,
             n |-> IF signed /\ s[1] = "-" THEN -digits_value(digits)
                   ELSE digits_value(digits)]

VOk(v) == [ok |-> TRUE, val |-> v]

RECURSIVE get_from_map(_, _, _)
get_from_map(h, env, symbol) ==
    IF symbol \in DOMAIN h[env].data THEN VOk(h[env].data[symbol])
    ELSE IF h[env].outer # 0 THEN get_from_map(h, h[env].outer, symbol)
    ELSE Err(<<"unknown symbol", symbol>>)

\* the literal arms of the match in Env::get
literal_value(symbol) ==
    CASE symbol = <<"n", "i", "l">>   -> VOk(Nil)
      [] symbol = <<"t", "r", "u", "e">>  -> VOk(True)
      [] symbol = <<"f", "a", "l", "s", "e">> -> VOk(False)
      [] symbol = <<"d", "e", "f", "!">>  -> VOk(Def)
      [] symbol = <<"l", "e", "t", "*">>  -> VOk(Let)
      [] symbol = <<"d", "o">>    -> VOk(Do)
      [] symbol = <<"i", "f">>    -> VOk(If)
      [] symbol = <<"q", "u", "o", "t", "e">> -> VOk(Quote)
      [] symbol = <<"f", "n", "*">>   -> VOk(Fn)
      [] OTHER -> LET n == parse_i64(symbol)
                  IN IF n.ok THEN VOk(Number(n.n)) ELSE [ok |-> FALSE]

\* a lookup that consults the bindings before the literals
Env_get_bindings_first(h, env, symbol) ==
    LET bound == get_from_map(h, env, symbol)
        lit   == literal_value(symbol)
    IN IF bound.ok THEN bound ELSE IF lit.ok THEN lit ELSE bound

Env_get(h, env, symbol) ==
    LET lit == literal_value(symbol)
    IN IF lit.ok THEN lit ELSE get_from_map(h, env, symbol)


\* self.data.borrow_mut().insert(symbol.to_string(), value)
Env_set(h, env, symbol, value) ==
    [h EXCEPT ![env].data =
        [k \in DOMAIN h[env].data \cup {symbol} |->
            IF k = symbol THEN value ELSE h[env].data[k]]]

(***************************************************************************)
(* env.rs: the primitives.  Each outcome is Ok(value), Err(message) or a   *)
(* panic: args[0] and args[1] are indexed without a length check, and an   *)
(* error message formats the offending values.                             *)
(***************************************************************************)
\* format!(kind, shown...) of values: panics when a value's Display panics
ErrFmt(kind, vals) ==
    IF \E i \in 1..Len(vals) : ~fmt_value(vals[i]).ok THEN Panic
    ELSE Err(<<kind>> \o [i \in 1..Len(vals) |-> fmt_value(vals[i]).text])

RECURSIVE add_from(_, _, _)
add_from(args, i, total) ==
    IF i > Len(args) THEN VOk(Number(total))
    ELSE IF args[i].t = "Number" THEN add_from(args, i + 1, total + args[i].n)
    ELSE ErrFmt("invalid type expected Number but got", <<args[i]>>)

add(args) == add_from(args, 1, 0)

sub(args) ==
    IF Len(args) < 1 THEN Panic
    ELSE IF args[1].t = "Number"
    THEN IF Len(args) < 2 THEN Panic
         ELSE IF args[2].t = "Number" THEN VOk(Number(args[1].n - args[2].n))
         ELSE ErrFmt("invalid type expected Numbers but got", <<args[1], args[2]>>)
    ELSE IF Len(args) < 2 THEN Panic
    ELSE ErrFmt("invalid type expected Numbers but got", <<args[1], args[2]>>)

RECURSIVE mul_from(_, _, _)
mul_from(args, i, total) ==
    IF i > Len(args) THEN VOk(Number(total))
    ELSE IF args[i].t = "Number" THEN mul_from(args, i + 1, total * args[i].n)
    ELSE ErrFmt("invalid type expected Number but got", <<args[i]>>)

mul(args) == mul_from(args, 1, 1)

leq(args) ==
    IF Len(args) < 1 THEN Panic
    ELSE IF args[1].t = "Number"
    THEN IF Len(args) < 2 THEN Panic
         ELSE IF args[2].t = "Number"
              THEN VOk(IF args[1].n <= args[2].n THEN True ELSE False)
         ELSE ErrFmt("invalid type expected Numbers but got", <<args[1], args[2]>>)
    ELSE IF Len(args) < 2 THEN Panic
    ELSE ErrFmt("invalid type expected Numbers but got", <<args[1], args[2]>>)

call_native(name, args) ==
    CASE name = "add" -> add(args)
      [] name = "sub" -> sub(args)
      [] name = "mul" -> mul(args)
      [] name = "leq" -> leq(args)

(***************************************************************************)
(* The lines rl.readline may return.                                       *)
(***************************************************************************)
\* (quote (1 2 3))
L_quote_list ==
    <<"(", "q", "u", "o", "t", "e", " ", "(", "1", " ", "2", " ", "3", ")", ")">>

\* (quote (a (b c)))
L_quote_nested ==
    <<"(", "q", "u", "o", "t", "e", " ", "(", "a", " ", "(", "b", " ", "c", ")", ")", ")">>

\* (quote a b)
L_quote_two ==
    <<"(", "q", "u", "o", "t", "e", " ", "a", " ", "b", ")">>

\* (quote ())
L_quote_empty ==
    <<"(", "q", "u", "o", "t", "e", " ", "(", ")", ")">>

\* (def! x 10)
L_def_x ==
    <<"(", "d", "e", "f", "!", " ", "x", " ", "1", "0", ")">>

\* x
L_x ==
    <<"x">>

\* (do (def! x 2) (- nil 1))
L_def_then_fail ==
    <<"(", "d", "o", " ", "(", "d", "e", "f", "!", " ", "x", " ", "2", ")", " ", "(", "-", " ", "n", "i", "l", " ", "1", ")", ")">>

\* (- 1)
L_sub_one ==
    <<"(", "-", " ", "1", ")">>

\* (- 5 3 1)
L_sub_three ==
    <<"(", "-", " ", "5", " ", "3", " ", "1", ")">>

\* (- 5 3)
L_sub_two ==
    <<"(", "-", " ", "5", " ", "3", ")">>

\* (<= 2 3 nil)
L_leq_three ==
    <<"(", "<", "=", " ", "2", " ", "3", " ", "n", "i", "l", ")">>

\* (<= 3 2)
L_leq_two ==
    <<"(", "<", "=", " ", "3", " ", "2", ")">>

\* (let* (a 2 b (+ a 1)) (+ a b))
L_let_seq ==
    <<"(", "l", "e", "t", "*", " ", "(", "a", " ", "2", " ", "b", " ", "(", "+", " ", "a", " ", "1", ")", ")", " ", "(", "+", " ", "a", " ", "b", ")", ")">>

\* (let* (a) a)
L_let_odd ==
    <<"(", "l", "e", "t", "*", " ", "(", "a", ")", " ", "a", ")">>

\* (let* a 1)
L_let_atom ==
    <<"(", "l", "e", "t", "*", " ", "a", " ", "1", ")">>

\* (let* (a 1))
L_let_short ==
    <<"(", "l", "e", "t", "*", " ", "(", "a", " ", "1", ")", ")">>

\* (let* () (do))
L_let_empty ==
    <<"(", "l", "e", "t", "*", " ", "(", ")", " ", "(", "d", "o", ")", ")">>

\* (def! f (fn* (a) (do (def! y a) (* a y))))
L_def_f ==
    <<"(", "d", "e", "f", "!", " ", "f", " ", "(", "f", "n", "*", " ", "(", "a", ")", " ", "(", "d", "o", " ", "(", "d", "e", "f", "!", " ", "y", " ", "a", ")", " ", "(", "*", " ", "a", " ", "y", ")", ")", ")", ")">>

\* (+ (f 2) (f 3))
L_call_f ==
    <<"(", "+", " ", "(", "f", " ", "2", ")", " ", "(", "f", " ", "3", ")", ")">>

\* (f 1 2)
L_call_f_arity ==
    <<"(", "f", " ", "1", " ", "2", ")">>

\* (def! m if)
L_def_marker ==
    <<"(", "d", "e", "f", "!", " ", "m", " ", "i", "f", ")">>

\* (m nil 1 2)
L_use_marker ==
    <<"(", "m", " ", "n", "i", "l", " ", "1", " ", "2", ")">>

\* (do (def! if 5) (def! 7 8) (def! nil 9) if)
L_def_keyword ==
    <<"(", "d", "o", " ", "(", "d", "e", "f", "!", " ", "i", "f", " ", "5", ")", " ", "(", "d", "e", "f", "!", " ", "7", " ", "8", ")", " ", "(", "d", "e", "f", "!", " ", "n", "i", "l", " ", "9", ")", " ", "i", "f", ")">>

\* (let* (true 1 -3 4) (if true -3 0))
L_let_keyword ==
    <<"(", "l", "e", "t", "*", " ", "(", "t", "r", "u", "e", " ", "1", " ", "-", "3", " ", "4", ")", " ", "(", "i", "f", " ", "t", "r", "u", "e", " ", "-", "3", " ", "0", ")", ")">>

\* ((fn* (quote 5) (+ 5 1)) 1 2)
L_fn_keyword ==
    <<"(", "(", "f", "n", "*", " ", "(", "q", "u", "o", "t", "e", " ", "5", ")", " ", "(", "+", " ", "5", " ", "1", ")", ")", " ", "1", " ", "2", ")">>

\* (def! g (let* (a (quote b)) (fn* () a)))
L_def_g ==
    <<"(", "d", "e", "f", "!", " ", "g", " ", "(", "l", "e", "t", "*", " ", "(", "a", " ", "(", "q", "u", "o", "t", "e", " ", "b", ")", ")", " ", "(", "f", "n", "*", " ", "(", ")", " ", "a", ")", ")", ")">>

\* (g)
L_call_g ==
    <<"(", "g", ")">>

\* (+ 1
L_unmatched ==
    <<"(", "+", " ", "1">>

\* (if nil 1 (if 0 1))
L_if_else ==
    <<"(", "i", "f", " ", "n", "i", "l", " ", "1", " ", "(", "i", "f", " ", "0", " ", "1", ")", ")">>

\* (if false 1)
L_if_none ==
    <<"(", "i", "f", " ", "f", "a", "l", "s", "e", " ", "1", ")">>

\* (def! x)
L_def_bad ==
    <<"(", "d", "e", "f", "!", " ", "x", ")">>

\* (nil 1)
L_nil_head ==
    <<"(", "n", "i", "l", " ", "1", ")">>

\* ()
L_empty ==
    <<"(", ")">>

\* (def! () 1)
L_def_list_key ==
    <<"(", "d", "e", "f", "!", " ", "(", ")", " ", "1", ")">>

\* (+ (quote) 1)
L_add_quoted ==
    <<"(", "+", " ", "(", "q", "u", "o", "t", "e", ")", " ", "1", ")">>

\* (if (if 1) 2)
L_if_short ==
    <<"(", "i", "f", " ", "(", "i", "f", " ", "1", ")", " ", "2", ")">>

\* (if 1 2 3 4)
L_if_long ==
    <<"(", "i", "f", " ", "1", " ", "2", " ", "3", " ", "4", ")">>

\* (fn* (a))
L_fn_short ==
    <<"(", "f", "n", "*", " ", "(", "a", ")", ")">>

\* (fn* a a)
L_fn_atom ==
    <<"(", "f", "n", "*", " ", "a", " ", "a", ")">>

\* ((quote) 1)
L_quoted_head ==
    <<"(", "(", "q", "u", "o", "t", "e", ")", " ", "1", ")">>

\* (let* (a 1 () 2) a)
L_let_list_key ==
    <<"(", "l", "e", "t", "*", " ", "(", "a", " ", "1", " ", "(", ")", " ", "2", ")", " ", "a", ")">>

\* (let* (() 1) 2)
L_let_first_key ==
    <<"(", "l", "e", "t", "*", " ", "(", "(", ")", " ", "1", ")", " ", "2", ")">>

\* (let* (()) 1)
L_let_odd_nested ==
    <<"(", "l", "e", "t", "*", " ", "(", "(", ")", ")", " ", "1", ")">>

\* ((fn* (()) 1) 2)
L_fn_list_param ==
    <<"(", "(", "f", "n", "*", " ", "(", "(", ")", ")", " ", "1", ")", " ", "2", ")">>

\* ((fn* (a b) (+ a b)) 2 3)
L_fn_add ==
    <<"(", "(", "f", "n", "*", " ", "(", "a", " ", "b", ")", " ", "(", "+", " ", "a", " ", "b", ")", ")", " ", "2", " ", "3", ")">>

\* ((fn* (a) (do (def! y a) ((fn* (b) (def! y b)) 7) y)) 1)
L_fn_nested ==
    <<"(", "(", "f", "n", "*", " ", "(", "a", ")", " ", "(", "d", "o", " ", "(", "d", "e", "f", "!", " ", "y", " ", "a", ")", " ", "(", "(", "f", "n", "*", " ", "(", "b", ")", " ", "(", "d", "e", "f", "!", " ", "y", " ", "b", ")", ")", " ", "7", ")", " ", "y", ")", ")", " ", "1", ")">>

Lines ==
    {L_quote_list,
     L_quote_nested,
     L_quote_two,
     L_quote_empty,
     L_def_x,
     L_x,
     L_def_then_fail,
     L_sub_one,
     L_sub_three,
     L_sub_two,
     L_leq_three,
     L_leq_two,
     L_let_seq,
     L_let_odd,
     L_let_atom,
     L_let_short,
     L_let_empty,
     L_def_f,
     L_call_f,
     L_call_f_arity,
     L_fn_add,
     L_fn_nested,
     L_def_marker,
     L_use_marker,
     L_def_keyword,
     L_let_keyword,
     L_fn_keyword,
     L_def_g,
     L_call_g,
     L_unmatched,
     L_if_else,
     L_if_short,
     L_if_long,
     L_fn_short,
     L_fn_atom,
     L_quoted_head,
     L_let_list_key,
     L_let_first_key,
     L_let_odd_nested,
     L_fn_list_param,
     L_if_none,
     L_def_bad,
     L_nil_head,
     L_empty,
     L_def_list_key,
     L_add_quoted}

(***************************************************************************)
(* main.rs: the evaluator as a machine.  ctrl is the call eval(expr, env)  *)
(* about to run, the Result it returned, or the application f(&args) about *)
(* to run; stack holds the eval_* activations waiting for that result.     *)
(***************************************************************************)
CEval(e, env) == [c |-> "eval", expr |-> e, env |-> env]

CRet(v) == [c |-> "ret", val |-> v]

CErr(m) == [c |-> "err", msg |-> m]

CApply(f, args) == [c |-> "apply", f |-> f, args |-> args]

CIdle == [c |-> "idle"]

NoOutput == [kind |-> "none"]

\* a Result<Value, String> as the control it leaves
FromResult(r) == IF r.ok THEN CRet(r.val) ELSE CErr(r.err)

Top == stack[Len(stack)]

Pop == SubSeq(stack, 1, Len(stack) - 1)

Replace(frame) == [stack EXCEPT ![Len(stack)] = frame]

\* a panic aborts the process: nothing runs afterwards
Abort ==
    /\ pc' = "panicked"
    /\ UNCHANGED <<history, heap, ctrl, stack, out, before>>

\* first_value has just been computed by eval for the list Top.exprs
Dispatching == pc = "eval" /\ ctrl.c = "ret" /\ stack # <<>> /\ Top.k = "head"

\* the result of a nested eval has arrived at an activation of kind k
Resuming(k) == pc = "eval" /\ ctrl.c = "ret" /\ stack # <<>> /\ Top.k = k

NewEnvId(h) == Len(h) + 1

eval ==
    /\ UNCHANGED <<history, out, before>> /\ UNCHANGED pvars
    /\ \/ /\ pc = "eval" /\ ctrl.c = "eval" /\ IsAtom(ctrl.expr)
          /\ ctrl' = FromResult(Env_get(heap, ctrl.env, ctrl.expr.a))
          /\ UNCHANGED <<pc, heap, stack>>
       \/ /\ pc = "eval" /\ ctrl.c = "eval" /\ IsList(ctrl.expr)
          /\ Len(ctrl.expr.l) = 0
          /\ ctrl' = CRet(Nil)
          /\ UNCHANGED <<pc, heap, stack>>
       \/ /\ pc = "eval" /\ ctrl.c = "eval" /\ IsList(ctrl.expr)
          /\ Len(ctrl.expr.l) > 0
          /\ stack' = Append(stack, [k |-> "head", exprs |-> ctrl.expr.l, env |-> ctrl.env])
          /\ ctrl' = CEval(ctrl.expr.l[1], ctrl.env)
          /\ UNCHANGED <<pc, heap>>
       \/ /\ Dispatching
          /\ ctrl.val.t \notin {"Def", "Let", "Do", "If", "Quote", "Fn", "Function"}
          /\ LET r == ErrFmt("unknown symbol", <<ctrl.val>>)
             IN IF IsPanic(r) THEN Abort
                ELSE /\ ctrl' = CErr(r.err)
                     /\ stack' = Pop
                     /\ UNCHANGED <<pc, heap>>

\* the ? operator: an Err returns through the pending activation
propagate ==
    /\ pc = "eval" /\ ctrl.c = "err" /\ stack # <<>>
    /\ stack' = Pop
    /\ UNCHANGED <<pc, history, heap, ctrl, out, before>> /\ UNCHANGED pvars

eval_def ==
    /\ UNCHANGED <<history, out, before>> /\ UNCHANGED pvars
    /\ \/ /\ Dispatching /\ ctrl.val = Def
          /\ Len(Top.exprs) # 3
          /\ ctrl' = CErr(<<"def! requires 2 arguments">>)
          /\ stack' = Pop
          /\ UNCHANGED <<pc, heap>>
       \/ /\ Dispatching /\ ctrl.val = Def
          /\ Len(Top.exprs) = 3
          /\ LET key == to_string(Top.exprs[2])
             IN IF ~key.ok THEN Abort
                ELSE /\ stack' = Replace([k |-> "def", key |-> key.text, env |-> Top.env])
                     /\ ctrl' = CEval(Top.exprs[3], Top.env)
                     /\ UNCHANGED <<pc, heap>>
       \/ /\ Resuming("def")
          /\ heap' = Env_set(heap, Top.env, Top.key, ctrl.val)
          /\ stack' = Pop
          /\ UNCHANGED <<pc, ctrl>>

\* a let* whose value expressions are evaluated in the enclosing environment
let_value_env_outer(new, current) == current

\* the environment the value expressions of a let* are evaluated in
let_value_env(new, current) == new

eval_let ==
    /\ UNCHANGED <<history, out, before>> /\ UNCHANGED pvars
    /\ \/ /\ Dispatching /\ ctrl.val = Let
          /\ Len(Top.exprs) # 3
          /\ ctrl' = CErr(<<"let* requires 2 arguments">>)
          /\ stack' = Pop
          /\ UNCHANGED <<pc, heap>>
       \/ /\ Dispatching /\ ctrl.val = Let
          /\ Len(Top.exprs) = 3
          /\ IsList(Top.exprs[2]) /\ Len(Top.exprs[2].l) % 2 = 0
          /\ LET keypairs == Top.exprs[2].l
                 new      == NewEnvId(heap)
             IN IF Len(keypairs) = 0
                THEN /\ heap' = Append(heap, Env_new(Top.env))
                     /\ stack' = Replace([k |-> "letbody", env |-> new])
                     /\ ctrl' = CEval(Top.exprs[3], new)
                     /\ UNCHANGED pc
                ELSE LET key == to_string(keypairs[1])
                     IN IF ~key.ok THEN Abort
                        ELSE /\ heap' = Append(heap, Env_new(Top.env))
                             /\ stack' = Replace([k |-> "let", keypairs |-> keypairs,
                                                  i |-> 1, key |-> key.text, env |-> new,
                                                  body |-> Top.exprs[3]])
                             /\ ctrl' = CEval(keypairs[2], let_value_env(new, Top.env))
                             /\ UNCHANGED pc
       \/ /\ Dispatching /\ ctrl.val = Let
          /\ Len(Top.exprs) = 3
          /\ ~(IsList(Top.exprs[2]) /\ Len(Top.exprs[2].l) % 2 = 0)
          /\ LET got == to_string(Top.exprs[2])
             IN IF ~got.ok THEN Abort
                ELSE /\ ctrl' = CErr(<<"let* expected key-value pairs got", got.text>>)
                     /\ stack' = Pop
                     /\ UNCHANGED <<pc, heap>>
       \/ /\ Resuming("let")
          /\ Top.i + 2 <= Len(Top.keypairs)
          /\ LET key == to_string(Top.keypairs[Top.i + 2])
             IN IF ~key.ok THEN Abort
                ELSE /\ heap' = Env_set(heap, Top.env, Top.key, ctrl.val)
                     /\ stack' = Replace([Top EXCEPT !.i = Top.i + 2, !.key = key.text])
                     /\ ctrl' = CEval(Top.keypairs[Top.i + 3],
                                      let_value_env(Top.env, heap[Top.env].outer))
                     /\ UNCHANGED pc
       \/ /\ Resuming("let")
          /\ Top.i + 2 > Len(Top.keypairs)
          /\ heap' = Env_set(heap, Top.env, Top.key, ctrl.val)
          /\ stack' = Replace([k |-> "letbody", env |-> Top.env])
          /\ ctrl' = CEval(Top.body, Top.env)
          /\ UNCHANGED pc
       \/ /\ Resuming("letbody")
          /\ stack' = Pop
          /\ UNCHANGED <<pc, heap, ctrl>>

eval_do ==
    /\ UNCHANGED <<pc, history, heap, out, before>> /\ UNCHANGED pvars
    /\ \/ /\ Dispatching /\ ctrl.val = Do
          /\ Len(Top.exprs) = 1
          /\ ctrl' = CRet(Nil)
          /\ stack' = Pop
       \/ /\ Dispatching /\ ctrl.val = Do
          /\ Len(Top.exprs) > 1
          /\ stack' = Replace([k |-> "do", exprs |-> Top.exprs, i |-> 2, env |-> Top.env])
          /\ ctrl' = CEval(Top.exprs[2], Top.env)
       \/ /\ Resuming("do")
          /\ Top.i < Len(Top.exprs)
          /\ stack' = Replace([Top EXCEPT !.i = Top.i + 1])
          /\ ctrl' = CEval(Top.exprs[Top.i + 1], Top.env)
       \/ /\ Resuming("do")
          /\ Top.i = Len(Top.exprs)
          /\ stack' = Pop
          /\ UNCHANGED ctrl

eval_if ==
    /\ UNCHANGED <<pc, history, heap, out, before>> /\ UNCHANGED pvars
    /\ \/ /\ Dispatching /\ ctrl.val = If
          /\ Len(Top.exprs) <= 2
          /\ ctrl' = CErr(<<"if* requires at least 2 arguments">>)
          /\ stack' = Pop
       \/ /\ Dispatching /\ ctrl.val = If
          /\ Len(Top.exprs) > 2
          /\ stack' = Replace([k |-> "if", exprs |-> Top.exprs, env |-> Top.env])
          /\ ctrl' = CEval(Top.exprs[2], Top.env)
       \/ /\ Resuming("if")
          /\ ctrl.val \in {Nil, False} /\ Len(Top.exprs) = 3
          /\ ctrl' = CRet(Nil)
          /\ stack' = Pop
       \/ /\ Resuming("if")
          /\ ctrl.val \in {Nil, False} /\ Len(Top.exprs) = 4
          /\ ctrl' = CEval(Top.exprs[4], Top.env)
          /\ stack' = Replace([k |-> "ifbranch", env |-> Top.env])
       \/ /\ Resuming("if")
          /\ ~(ctrl.val \in {Nil, False} /\ Len(Top.exprs) \in {3, 4})
          /\ Len(Top.exprs) <= 4
          /\ ctrl' = CEval(Top.exprs[3], Top.env)
          /\ stack' = Replace([k |-> "ifbranch", env |-> Top.env])
       \/ /\ Resuming("if")
          /\ Len(Top.exprs) > 4
          /\ ctrl' = CErr(<<"if* requires at most 3 arguments">>)
          /\ stack' = Pop
       \/ /\ Resuming("ifbranch")
          /\ stack' = Pop
          /\ UNCHANGED ctrl

\* a quote that returns its first trailing form alone
quote_value_first(exprs) == Quoted(IF Len(exprs) > 1 THEN exprs[2] ELSE List(<<>>))

\* a quote that returns the marker it was dispatched on
quote_value_marker(exprs) == Quote

\* Value::Quoted(Expr::List(Vec::from(&exprs[1..])))
quote_value(exprs) == Quoted(List(Tail(exprs)))

eval_quote ==
    /\ Dispatching /\ ctrl.val = Quote
    /\ ctrl' = CRet(quote_value(Top.exprs))
    /\ stack' = Pop
    /\ UNCHANGED <<pc, history, heap, out, before>> /\ UNCHANGED pvars

eval_fn ==
    /\ UNCHANGED <<pc, history, heap, out, before>> /\ UNCHANGED pvars
    /\ \/ /\ Dispatching /\ ctrl.val = Fn
          /\ Len(Top.exprs) # 3
          /\ ctrl' = CErr(<<"fn* requires 2 arguments">>)
          /\ stack' = Pop
       \/ /\ Dispatching /\ ctrl.val = Fn
          /\ Len(Top.exprs) = 3 /\ IsList(Top.exprs[2])
          /\ ctrl' = CRet(Function(Closure(Top.env, Top.exprs[2].l, Top.exprs[3])))
          /\ stack' = Pop
       \/ /\ Dispatching /\ ctrl.val = Fn
          /\ Len(Top.exprs) = 3 /\ ~IsList(Top.exprs[2])
          /\ ctrl' = CErr(<<"fn* expected bindings got", to_string(Top.exprs[2]).text>>)
          /\ stack' = Pop

\* an invocation that binds its parameters in the captured environment
callback_env_captured(h, captured) == captured

\* the environment a closure invocation binds its parameters in
callback_env(h, captured) == NewEnvId(h)

\* for (binding, arg) in cloned_bindings.iter().zip(args) { env.set(&key, arg.clone()) }
RECURSIVE bind_args(_, _, _, _, _)
bind_args(h, env, bindings, args, i) ==
    IF i > Len(bindings) THEN h
    ELSE bind_args(Env_set(h, env, to_string(bindings[i]).text, args[i]),
                   env, bindings, args, i + 1)

\* the closure built by eval_fn, applied to args
callback ==
    /\ UNCHANGED <<history, out, before>> /\ UNCHANGED pvars
    /\ \/ /\ pc = "eval" /\ ctrl.c = "apply" /\ IsClosure(ctrl.f)
          /\ Len(ctrl.args) # Len(ctrl.f.bindings)
          /\ ctrl' = CErr(<<"fn required args but given">>)
          /\ UNCHANGED <<pc, heap, stack>>
       \/ /\ pc = "eval" /\ ctrl.c = "apply" /\ IsClosure(ctrl.f)
          /\ Len(ctrl.args) = Len(ctrl.f.bindings)
          /\ LET env == callback_env(heap, ctrl.f.env)
                 h1  == IF env = NewEnvId(heap)
                        THEN Append(heap, Env_new(ctrl.f.env)) ELSE heap
             IN IF \E i \in 1..Len(ctrl.f.bindings) : ~to_string(ctrl.f.bindings[i]).ok
                THEN Abort
                ELSE /\ heap' = bind_args(h1, env, ctrl.f.bindings, ctrl.args, 1)
                     /\ stack' = Append(stack, [k |-> "call", env |-> env])
                     /\ ctrl' = CEval(ctrl.f.body, env)
                     /\ UNCHANGED pc
       \/ /\ Resuming("call")
          /\ stack' = Pop
          /\ UNCHANGED <<pc, heap, ctrl>>

eval_function ==
    /\ UNCHANGED <<history, out, before>> /\ UNCHANGED pvars
    /\ \/ /\ Dispatching /\ ctrl.val.t = "Function"
          /\ Len(Top.exprs) = 1
          /\ ctrl' = CApply(ctrl.val.f, <<>>)
          /\ stack' = Pop
          /\ UNCHANGED <<pc, heap>>
       \/ /\ Dispatching /\ ctrl.val.t = "Function"
          /\ Len(Top.exprs) > 1
          /\ stack' = Replace([k |-> "args", exprs |-> Top.exprs, i |-> 2, env |-> Top.env,
                               f |-> ctrl.val.f, args |-> <<>>])
          /\ ctrl' = CEval(Top.exprs[2], Top.env)
          /\ UNCHANGED <<pc, heap>>
       \/ /\ Resuming("args")
          /\ Top.i < Len(Top.exprs)
          /\ stack' = Replace([Top EXCEPT !.i = Top.i + 1, !.args = Append(Top.args, ctrl.val)])
          /\ ctrl' = CEval(Top.exprs[Top.i + 1], Top.env)
          /\ UNCHANGED <<pc, heap>>
       \/ /\ Resuming("args")
          /\ Top.i = Len(Top.exprs)
          /\ ctrl' = CApply(Top.f, Append(Top.args, ctrl.val))
          /\ stack' = Pop
          /\ UNCHANGED <<pc, heap>>
       \/ /\ pc = "eval" /\ ctrl.c = "apply" /\ ~IsClosure(ctrl.f)
          /\ LET r == call_native(ctrl.f.native, ctrl.args)
             IN IF IsPanic(r) THEN Abort
                ELSE /\ ctrl' = FromResult(r)
                     /\ UNCHANGED <<pc, heap, stack>>

(***************************************************************************)
(* main.rs: fn main, the read-eval-print loop.                             *)
(***************************************************************************)
MaxLines == 2

\* the line being evaluated, or whose outcome was printed last
line == history[Len(history)]

main ==
    /\ UNCHANGED heap /\ UNCHANGED pvars
    /\ \/ /\ pc = "read" /\ Len(history) < MaxLines
          /\ \E l \in Lines :
                /\ history' = Append(history, l)
                /\ before' = heap[1].data
                /\ LET r == Expr_parse(l)
                   IN IF r.ok
                      THEN /\ pc' = "eval"
                           /\ ctrl' = CEval(r.expr, 1)
                           /\ stack' = <<>>
                           /\ UNCHANGED out
                      ELSE /\ out' = [kind |-> "parse error", text |-> <<r.err>>]
                           /\ UNCHANGED <<pc, ctrl, stack>>
       \/ /\ pc = "eval" /\ stack = <<>> /\ ctrl.c = "ret"
          /\ LET output == fmt_value(ctrl.val)
             IN IF ~output.ok THEN Abort
                ELSE /\ out' = [kind |-> "value", text |-> output.text]
                     /\ pc' = "read"
                     /\ ctrl' = CIdle
                     /\ UNCHANGED <<history, stack, before>>
       \/ /\ pc = "eval" /\ stack = <<>> /\ ctrl.c = "err"
          /\ out' = [kind |-> "eval error", text |-> ctrl.msg]
          /\ pc' = "read"
          /\ ctrl' = CIdle
          /\ UNCHANGED <<history, stack, before>>
       \/ /\ pc = "read"
          /\ pc' = "exit"
          /\ UNCHANGED <<history, ctrl, stack, out, before>>

Init ==
    /\ pc = "read" /\ history = <<>>
    /\ heap = <<Env_default>>
    /\ ctrl = CIdle /\ stack = <<>> /\ out = NoOutput
    /\ before = Env_default.data
    /\ source = <<>> /\ parsed = NotYet /\ shown = NotYet /\ reparsed = NotYet

Next ==
    \/ main
    \/ eval
    \/ propagate
    \/ eval_def
    \/ eval_let
    \/ eval_do
    \/ eval_if
    \/ eval_quote
    \/ eval_fn
    \/ eval_function
    \/ callback

Spec == Init /\ [][Next]_vars

(***************************************************************************)
(* SpecParse: Expr::parse and Display applied to bounded texts.            *)
(***************************************************************************)
MaxTextLen == 5

\* the characters the texts are drawn from: the two parentheses, a space,
\* an atom character and a character outside the grammar
TextAlphabet == {"(", ")", " ", "a", "DEL"}

RECURSIVE TextsOfLen(_)
TextsOfLen(n) ==
    IF n = 0 THEN {<<>>}
    ELSE {Append(t, c) : t \in TextsOfLen(n - 1), c \in TextAlphabet}

Texts == UNION {TextsOfLen(n) : n \in 0..MaxTextLen}

ParseInit ==
    /\ source \in Texts
    /\ parsed = NotYet
    /\ shown = NotYet
    /\ reparsed = NotYet
    /\ pc = "exit" /\ history = <<>> /\ heap = <<Env_default>>
    /\ ctrl = CIdle /\ stack = <<>> /\ out = NoOutput /\ before = Env_default.data

DoParse ==
    /\ parsed = NotYet
    /\ parsed' = Expr_parse(source)
    /\ UNCHANGED <<source, shown, reparsed>> /\ UNCHANGED rvars

DoShow ==
    /\ parsed # NotYet /\ parsed.ok
    /\ shown = NotYet
    /\ shown' = to_string(parsed.expr)
    /\ UNCHANGED <<source, parsed, reparsed>> /\ UNCHANGED rvars

DoReparse ==
    /\ shown # NotYet /\ shown.ok
    /\ reparsed = NotYet
    /\ reparsed' = Expr_parse(shown.text)
    /\ UNCHANGED <<source, parsed, shown>> /\ UNCHANGED rvars

ParseNext == DoParse \/ DoShow \/ DoReparse

SpecParse == ParseInit /\ [][ParseNext]_vars

(***************************************************************************)
(* Properties of the read-eval-print loop and the evaluator (Spec).        *)
(***************************************************************************)

\* main is back at the prompt and `out` is what it printed for `line`
Printed == pc = "read" /\ Len(history) > 0

\* eval has returned to main with a value that main has not printed yet
Returned == pc = "eval" /\ stack = <<>> /\ ctrl.c = "ret" /\ Len(history) > 0

\* list forms L for which (quote L) is among the lines
QuotedLists == {<<"(", "1", " ", "2", " ", "3", ")">>, <<"(", "a", " ", "(", "b", " ", "c", ")", ")">>, <<"(", ")">>}

QuoteOf(L) == <<"(", "q", "u", "o", "t", "e", " ">> \o L \o <<")">>

\* C1 (as stated): (quote L) for a single list form L prints exactly the
\* rendered text of L, with no additional enclosing pair of parentheses.
C1_QuoteRendersList ==
    \A L \in QuotedLists :
        (Printed /\ line = QuoteOf(L)) => out = [kind |-> "value", text |-> L]

\* C1 (as implemented): (quote L) yields the Quoted value that wraps the list of
\* all trailing forms, here the one-element list (L); it prints as the
\* rendered text of L inside one additional pair of parentheses, and does
\* not print at all exactly when L itself cannot be rendered.
C1_QuoteWrapsTrailingForms ==
    \A L \in QuotedLists :
        LET e == Expr_parse(L).expr
        IN /\ (Returned /\ line = QuoteOf(L)) => ctrl.val = Quoted(List(<<e>>))
           /\ (Printed /\ line = QuoteOf(L)) =>
                  /\ to_string(e) = Shown(L)
                  /\ out = [kind |-> "value", text |-> <<"(">> \o L \o <<")">>]
           /\ (pc = "panicked" /\ line = QuoteOf(L)) => ~to_string(e).ok

C1_Witness == Printed /\ line = L_quote_list /\ out.kind = "value"

\* C3: - and <= applied to anything but exactly two Numbers return an error
\* result; applied to two Numbers x, y they give x - y and x <= y.
C3_SubLeqNeedTwoNumbers ==
    (pc = "eval" /\ ctrl.c = "apply" /\ ~IsClosure(ctrl.f)
        /\ ctrl.f.native \in {"sub", "leq"}) =>
    LET args == ctrl.args
        r    == call_native(ctrl.f.native, args)
    IN IF Len(args) = 2 /\ args[1].t = "Number" /\ args[2].t = "Number"
       THEN r = VOk(IF ctrl.f.native = "sub" THEN Number(args[1].n - args[2].n)
                    ELSE IF args[1].n <= args[2].n THEN True ELSE False)
       ELSE ~r.ok /\ ~IsPanic(r)

\* C4: a line whose parse or evaluation fails only prints an error message:
\* the process survives the evaluation and is back at the prompt, and every
\* global binding made before the line still has the value it had.
C4_FailureLeavesLoopAndBindings ==
    /\ ~(pc = "panicked" /\ ~(stack = <<>> /\ ctrl.c = "ret"))
    /\ (Printed /\ out.kind \in {"parse error", "eval error"}) =>
           \A k \in DOMAIN before :
               k \in DOMAIN heap[1].data /\ heap[1].data[k] = before[k]

\* the activations of closures that are in progress
CallFrames == {i \in 1..Len(stack) : stack[i].k = "call"}

BindingNames(bindings) == {to_string(bindings[i]).text : i \in 1..Len(bindings)}

C5_State ==
    \* the documented example
    /\ (Printed /\ line = L_fn_add) => out = [kind |-> "value", text |-> <<"5">>]
    \* the def! of an inner invocation does not reach the environment its
    \* closure captured, which is that of the outer invocation
    /\ (Printed /\ line = L_fn_nested) => out = [kind |-> "value", text |-> <<"1">>]

C5_Step ==
    \* while an invocation is in progress, no environment that existed when
    \* it started (the captured one, the caller's, those of other
    \* invocations) changes
    /\ \A i \in CallFrames :
           \A id \in 1..(stack[i].env - 1) : heap'[id] = heap[id]
    \* an invocation fails on an argument count mismatch without touching any
    \* environment, and otherwise binds exactly its parameters in a new child
    \* of the captured environment, where the body is evaluated
    /\ (pc = "eval" /\ ctrl.c = "apply" /\ IsClosure(ctrl.f)) =>
           /\ SubSeq(heap', 1, Len(heap)) = heap
           /\ IF Len(ctrl.args) # Len(ctrl.f.bindings)
              THEN heap' = heap /\ ctrl'.c = "err" /\ pc' = "eval"
              ELSE \/ pc' = "panicked" /\ heap' = heap
                   \/ /\ Len(heap') = Len(heap) + 1
                      /\ heap'[Len(heap')].outer = ctrl.f.env
                      /\ DOMAIN heap'[Len(heap')].data = BindingNames(ctrl.f.bindings)
                      /\ ctrl' = CEval(ctrl.f.body, Len(heap'))
                      /\ stack'[Len(stack')] = [k |-> "call", env |-> Len(heap')]

\* C5: every closure invocation runs in its own new child of the captured
\* environment; its bindings (parameters, def! in the body) reach no
\* environment that existed before it, and an invocation with the wrong
\* number of arguments fails without creating bindings.
C5_InvocationIsolated == []C5_State /\ [][C5_Step]_vars

\* two invocations of f, each with its own a and y, and no y in the global
C5_Witness ==
    \E i, j \in DOMAIN heap :
        /\ i # j /\ heap[i].outer = 1 /\ heap[j].outer = 1
        /\ <<"y">> \in DOMAIN heap[i].data /\ heap[i].data[<<"y">>] = Number(2)
        /\ <<"y">> \in DOMAIN heap[j].data /\ heap[j].data[<<"y">>] = Number(3)
        /\ <<"y">> \notin DOMAIN heap[1].data
        /\ <<"a">> \notin DOMAIN heap[1].data

StoredValues(env) == {env.data[k] : k \in DOMAIN env.data}

\* C6 (as stated): no binding of any environment stores a special-form
\* marker.
C6_NoMarkerStored ==
    \A id \in DOMAIN heap : StoredValues(heap[id]) \cap Markers = {}

SpecialFormNames == {<<"d", "e", "f", "!">>, <<"l", "e", "t", "*">>, <<"d", "o">>, <<"i", "f">>, <<"q", "u", "o", "t", "e">>, <<"f", "n", "*">>}

\* special-form keywords occur in e only as the head of a list
RECURSIVE KeywordsOnlyAsHead(_)
KeywordsOnlyAsHead(e) ==
    IF IsAtom(e) THEN e.a \notin SpecialFormNames
    ELSE \A i \in 1..Len(e.l) :
            \/ i = 1 /\ IsAtom(e.l[1])
            \/ KeywordsOnlyAsHead(e.l[i])

\* the lines that cannot be parsed or that write keywords only as heads
HeadKeywordLines ==
    {l \in Lines : Expr_parse(l).ok => KeywordsOnlyAsHead(Expr_parse(l).expr)}

HeadKeywordsOnly == \A i \in 1..Len(history) : history[i] \in HeadKeywordLines

\* C6 (as implemented): as long as the lines read write special-form keywords only
\* as the head of a list, no binding stores a special-form marker.  (A
\* keyword evaluated anywhere else, as in (def! m if), yields its marker as
\* an ordinary value, which def!, let* and closure calls store.)
C6_NoMarkerStoredByHeadKeywords ==
    HeadKeywordsOnly => C6_NoMarkerStored

C6_Witness ==
    /\ HeadKeywordsOnly /\ Len(history) = 2
    /\ <<"g">> \in DOMAIN heap[1].data
    /\ \E id \in DOMAIN heap : id > 1 /\ StoredValues(heap[id]) # {}

LetShapeOk(exprs) ==
    Len(exprs) = 3 /\ IsList(exprs[2]) /\ Len(exprs[2].l) % 2 = 0

C7_State ==
    \* vi is evaluated in the child, where k1..k(i-1) are already bound
    /\ (pc = "eval" /\ ctrl.c = "eval" /\ stack # <<>> /\ Top.k = "let") =>
           /\ ctrl.expr = Top.keypairs[Top.i + 1]
           /\ ctrl.env = Top.env
           /\ \A j \in 1..(Top.i - 1) :
                  j % 2 = 1 => to_string(Top.keypairs[j]).text \in DOMAIN heap[Top.env].data
    \* the documented example
    /\ (Printed /\ line = L_let_seq) => out = [kind |-> "value", text |-> <<"5">>]

C7_Step ==
    \* a well-formed let* creates exactly one environment, an empty child of
    \* the current one
    /\ (Dispatching /\ ctrl.val = Let /\ LetShapeOk(Top.exprs) /\ pc' # "panicked") =>
           /\ heap' = Append(heap, Env_new(Top.env))
           /\ stack'[Len(stack')].env = Len(heap')
    \* an ill-formed let* yields no value and creates nothing
    /\ (Dispatching /\ ctrl.val = Let /\ ~LetShapeOk(Top.exprs)) =>
           /\ heap' = heap
           /\ (ctrl'.c = "err" \/ pc' = "panicked")
    \* each value is bound in the child under its key; the body is then
    \* evaluated in that same child, and its result is the result of the let*
    /\ Resuming("let") =>
           \/ pc' = "panicked"
           \/ /\ heap' = Env_set(heap, Top.env, Top.key, ctrl.val)
              /\ ctrl'.c = "eval" /\ ctrl'.env = Top.env
              /\ Top.i + 2 > Len(Top.keypairs) => ctrl'.expr = Top.body
    /\ Resuming("letbody") => ctrl' = ctrl /\ stack' = Pop /\ heap' = heap

\* C7: let* creates one child environment, evaluates each vi in it after
\* k1..k(i-1) are bound there, evaluates the body in it and returns the
\* body's value; a let* of the wrong shape fails.
C7_LetSequential == []C7_State /\ [][C7_Step]_vars

\* b is being bound: a is already bound to 2 in the new child
C7_Witness ==
    /\ pc = "eval" /\ stack # <<>> /\ Top.k = "let" /\ Top.i = 3
    /\ ctrl.c = "ret" /\ ctrl.val = Number(3)
    /\ heap[Top.env].data = (<<"a">> :> Number(2))
    /\ heap[Top.env].outer = 1

Captured(env) ==
    {v.f.env : v \in {w \in StoredValues(env) : w.t = "Function" /\ IsClosure(w.f)}}

\* what an environment owns: its outer environment and the environments
\* captured by the closures stored in it
Owns(id) == ({heap[id].outer} \ {0}) \cup Captured(heap[id])

RECURSIVE OwnedWithin(_, _)
OwnedWithin(ids, n) ==
    IF n = 0 THEN ids
    ELSE OwnedWithin(ids \cup UNION {Owns(id) : id \in ids}, n - 1)

Reachable(id) == OwnedWithin(Owns(id), Len(heap))

\* C9 (as stated): the ownership graph of environments is acyclic, and no
\* environment references, directly or through a stored closure, one of
\* its own children.
C9_OwnershipAcyclic ==
    \A id \in DOMAIN heap :
        /\ id \notin Reachable(id)
        /\ \A c \in Captured(heap[id]) : heap[c].outer # id

\* C9 (as implemented): the outer links alone are acyclic: every environment but
\* the global one has an outer link, to an environment created before it,
\* and every stored closure captures an existing environment.  (A closure
\* stored in an environment may capture that environment or one of its
\* children, so the links through stored closures do form cycles.)
C9_OuterLinksAcyclic ==
    \A id \in DOMAIN heap :
        /\ heap[id].outer < id
        /\ (heap[id].outer = 0) <=> (id = 1)
        /\ Captured(heap[id]) \subseteq DOMAIN heap

\* the global environment holds g, whose closure captured a child of it
C9_Witness ==
    /\ <<"g">> \in DOMAIN heap[1].data
    /\ \E c \in Captured(heap[1]) : c > 1 /\ heap[c].outer = 1

\* the literal keyword table and some integer-literal tokens, with the
\* values they denote
KeywordValues ==
    {<<<<"n", "i", "l">>, Nil>>, <<<<"t", "r", "u", "e">>, True>>, <<<<"f", "a", "l", "s", "e">>, False>>,
     <<<<"d", "e", "f", "!">>, Def>>, <<<<"l", "e", "t", "*">>, Let>>, <<<<"d", "o">>, Do>>, <<<<"i", "f">>, If>>,
     <<<<"q", "u", "o", "t", "e">>, Quote>>, <<<<"f", "n", "*">>, Fn>>}

IntegerTokens ==
    {<<<<"7">>, Number(7)>>, <<<<"5">>, Number(5)>>, <<<<"-", "3">>, Number(-3)>>,
     <<<<"+", "7">>, Number(7)>>, <<<<"0", "0", "7">>, Number(7)>>}

LiteralTokens == KeywordValues \cup IntegerTokens

\* C10: whatever has been bound, Env::get of nil/true/false or of a
\* special-form keyword returns the literal or marker, and Env::get of an
\* integer-literal token returns that Number, never a user binding: in the
\* environment eval is about to resolve an atom in, and, between lines, in
\* every environment.
C10_LiteralsNotShadowed ==
    /\ (pc = "eval" /\ ctrl.c = "eval" /\ IsAtom(ctrl.expr)) =>
           \A kv \in LiteralTokens : Env_get(heap, ctrl.env, kv[1]) = VOk(kv[2])
    /\ (pc = "read") =>
           \A id \in DOMAIN heap :
               \A kv \in LiteralTokens : Env_get(heap, id, kv[1]) = VOk(kv[2])

\* if, 7 and nil are bound in the global environment
C10_Witness ==
    /\ {<<"i", "f">>, <<"7">>, <<"n", "i", "l">>} \subseteq DOMAIN heap[1].data
    /\ heap[1].data[<<"i", "f">>] = Number(5)
    /\ Printed

(***************************************************************************)
(* Properties of the parser and of Display (SpecParse).                    *)
(***************************************************************************)

\* C2: every Expression the parser produces renders to text, and parsing
\* that text gives back an equal Expression.
C2_RoundTrip ==
    /\ (shown # NotYet) => shown.ok
    /\ (reparsed # NotYet) => reparsed = parsed

\* the grammar's expressions over the atom a, and their text with a single
\* space between the elements of a list and no other whitespace
RECURSIVE SeqsUpTo(_, _)
SeqsUpTo(S, n) ==
    IF n = 0 THEN {<<>>}
    ELSE SeqsUpTo(S, n - 1) \cup
         {Append(xs, x) : xs \in {ys \in SeqsUpTo(S, n - 1) : Len(ys) = n - 1}, x \in S}

RECURSIVE Forms(_)
Forms(d) ==
    IF d = 0 THEN {Atom(<<"a">>)}
    ELSE Forms(d - 1) \cup {List(xs) : xs \in SeqsUpTo(Forms(d - 1), 2)}

\* lists of up to two elements, nested up to two deep
GrammarForms == Forms(2)

RECURSIVE Compact(_)
RECURSIVE CompactElems(_, _)
CompactElems(xs, k) ==
    IF k = 0 THEN <<>>
    ELSE IF k = 1 THEN Compact(xs[1])
    ELSE CompactElems(xs, k - 1) \o <<" ">> \o Compact(xs[k])

Compact(e) ==
    IF IsAtom(e) THEN e.a ELSE <<"(">> \o CompactElems(e.l, Len(e.l)) \o <<")">>

\* t is c with whitespace inserted
RECURSIVE Padded(_, _)
Padded(t, c) ==
    IF Len(t) = 0 THEN Len(c) = 0
    ELSE \/ Len(c) > 0 /\ t[1] = c[1] /\ Padded(Tail(t), Tail(c))
         \/ is_whitespace(t[1]) /\ Padded(Tail(t), c)

\* C8: a well-formed text with whitespace inserted around its tokens and
\* parentheses parses to the same Expression as the text without it.
C8_WhitespaceIgnored ==
    (parsed # NotYet) =>
        \A e \in GrammarForms : Padded(source, Compact(e)) => parsed = Ok(e)

=============================================================================
